---- MODULE Spec2Model ----
(***************************************************************************)
(* State-machine model of fastapi/applications.py: the FastAPI application *)
(* object, its constructor's registration of the documentation routes, and *)
(* its request handlers openapi, swagger_ui_html,                          *)
(* swagger_ui_oauth2_redirect_html and redoc_html.                         *)
(*                                                                         *)
(* Python values are encoded as strings: "None" is None, "" is the empty   *)
(* string.  An instance attribute is a sequence: <<>> when the attribute   *)
(* has never been assigned on the instance, <<v>> when it holds v.         *)
(***************************************************************************)
EXTENDS Naturals, Sequences, FiniteSets, TLC

\* ---------------------------------------------------------------- bounds
NumCallers == 2      \* threads that may be inside openapi() at once
MaxCalls   == 2      \* openapi() invocations in one run
MaxAdded   == 1      \* routes registered after construction

Callers == 1 .. NumCallers

\* ------------------------------------------------------- input domains
OpenapiUrls  == {"None", "", "/openapi.json"}
DocsUrls     == {"None", "", "/docs"}
RedocUrls    == {"None", "", "/redoc"}
RedirectUrls == {"None", "", "/docs/oauth2-redirect"}
\* title, version, description and swagger_ui_init_oauth: the defaults, or all set.
Infos ==
  { [title |-> "FastAPI", version |-> "0.1.0", description |-> "",
     init_oauth |-> "None"],
    [title |-> "Shop", version |-> "2.0", description |-> "shop api",
     init_oauth |-> "client-cfg"] }

UserRoute(p, e) == [path |-> p, endpoint |-> e, include_in_schema |-> TRUE]

SuppliedRoutes ==
  { <<>>,
    << UserRoute("/users", "read_users"), UserRoute("/items", "read_items") >> }

LateRoutes == { UserRoute("/late", "read_late") }

HtmlHandlers == {"swagger_ui_html", "swagger_ui_oauth2_redirect_html", "redoc_html"}

\* ------------------------------------------------------------ variables
VARIABLES
  phase,                          \* "new" | "ok" | "raised": outcome of __init__
  supplied,                       \* the routes argument
  title, description, version,    \* self.title, self.description, self.version
  openapi_url, docs_url, redoc_url,
  swagger_ui_oauth2_redirect_url,
  swagger_ui_init_oauth,
  openapi_tags, servers,
  routes,                         \* self.routes (the router's route list)
  addRouteCalls,                  \* add_route calls made by __init__, in order
  added,                          \* routes registered after construction
  openapi_schema,                 \* the instance attribute self.openapi_schema
  pc, local, result,              \* per caller of openapi(): position, computed value, returned value
  calls,                          \* openapi() invocations so far
  genCount,                       \* get_openapi invocations so far
  firstRoutes,                    \* <<>>, or <<self.routes as of the first openapi() call>>
  html                            \* per HTML handler: <<>>, or <<the document it last returned>>

config == << supplied, title, description, version, openapi_url, docs_url,
             redoc_url, swagger_ui_oauth2_redirect_url, swagger_ui_init_oauth,
             openapi_tags, servers >>
cache  == << openapi_schema, pc, local, result, calls, genCount, firstRoutes >>
vars   == << phase, config, routes, addRouteCalls, added, cache, html >>

\* -------------------------------------------------------------- helpers
\* Python truthiness of an Optional[str]: None and "" are falsy.
Truthy(u) == u # "None" /\ u # ""

\* Python truthiness of a dict: falsy iff it has no key.
TruthyDict(d) == DOMAIN d # {}

SeqIf(c, s) == IF c THEN s ELSE <<>>

Call(p, e) == [path |-> p, endpoint |-> e, include_in_schema |-> FALSE]

Min(S) == CHOOSE x \in S : \A y \in S : x <= y

\* ----------------------------------------------------- collaborators
\* routing.APIRouter(routes=routes, ...): the router holds the supplied routes.
APIRouter(rs) == rs

\* add_route(path, endpoint, include_in_schema): appends one route.
add_route(rs, c) == Append(rs, c)

\* The framework's path validation of a route being registered.
ValidPath(p) == Truthy(p)

\* get_openapi(title, version, description, routes, tags, servers)
get_openapi(t, v, d, rs, tags, srv) ==
  [ info    |-> [title |-> t, version |-> v, description |-> d],
    paths   |-> { r.path : r \in { rs[i] : i \in { j \in 1 .. Len(rs) : rs[j].include_in_schema } } },
    tags    |-> tags,
    servers |-> srv ]

\* get_swagger_ui_html(openapi_url, title, oauth2_redirect_url, init_oauth)
get_swagger_ui_html(u, t, r, o) ==
  [ kind |-> "swagger", openapi_url |-> u, title |-> t,
    oauth2_redirect_url |-> r, init_oauth |-> o ]

\* get_redoc_html(openapi_url, title)
get_redoc_html(u, t) == [ kind |-> "redoc", openapi_url |-> u, title |-> t ]

\* get_swagger_ui_oauth2_redirect_html()
get_swagger_ui_oauth2_redirect_html == [ kind |-> "oauth2-redirect" ]

\* ------------------------------------------------------------ __init__
Init ==
  /\ phase = "new"
  /\ supplied \in SuppliedRoutes
  /\ \E i \in Infos :
       /\ title = i.title
       /\ description = i.description
       /\ version = i.version
       /\ swagger_ui_init_oauth = i.init_oauth
  /\ openapi_url \in OpenapiUrls
  /\ docs_url \in DocsUrls
  /\ redoc_url \in RedocUrls
  /\ swagger_ui_oauth2_redirect_url \in RedirectUrls
  /\ openapi_tags = "None"
  /\ servers = "None"
  /\ routes = <<>>
  /\ addRouteCalls = <<>>
  /\ added = 0
  /\ openapi_schema = <<>>
  /\ pc = [c \in Callers |-> "idle"]
  /\ local = [c \in Callers |-> <<>>]
  /\ result = [c \in Callers |-> <<>>]
  /\ calls = 0
  /\ genCount = 0
  /\ firstRoutes = <<>>
  /\ html = [h \in HtmlHandlers |-> <<>>]

\* Variant: the docs routes are registered only when the schema URL is set too.
DocRouteCalls_Nested ==
     SeqIf(Truthy(openapi_url), << Call(openapi_url, "openapi") >>)
  \o SeqIf(Truthy(openapi_url) /\ Truthy(docs_url),
           << Call(docs_url, "swagger_ui_html"),
              Call(swagger_ui_oauth2_redirect_url, "swagger_ui_oauth2_redirect_html") >>)
  \o SeqIf(Truthy(redoc_url), << Call(redoc_url, "redoc_html") >>)

\* Variant: the redoc block runs before the docs block.
DocRouteCalls_RedocFirst ==
     SeqIf(Truthy(openapi_url), << Call(openapi_url, "openapi") >>)
  \o SeqIf(Truthy(redoc_url), << Call(redoc_url, "redoc_html") >>)
  \o SeqIf(Truthy(docs_url),
           << Call(docs_url, "swagger_ui_html"),
              Call(swagger_ui_oauth2_redirect_url, "swagger_ui_oauth2_redirect_html") >>)

\* The add_route calls of lines 119-129, in program order.
DocRouteCalls ==
     SeqIf(Truthy(openapi_url), << Call(openapi_url, "openapi") >>)
  \o SeqIf(Truthy(docs_url),
           << Call(docs_url, "swagger_ui_html"),
              Call(swagger_ui_oauth2_redirect_url, "swagger_ui_oauth2_redirect_html") >>)
  \o SeqIf(Truthy(redoc_url), << Call(redoc_url, "redoc_html") >>)

RECURSIVE AddAll(_, _)
AddAll(rs, cs) == IF cs = <<>> THEN rs ELSE AddAll(add_route(rs, Head(cs)), Tail(cs))

\* FastAPI.__init__: builds the router from the supplied routes, then makes the
\* add_route calls.  self.openapi_schema is not assigned.  A call whose path is
\* None or "" is either accepted by the framework or makes the constructor raise
\* at that call.
FastAPIInit ==
  /\ phase = "new"
  /\ LET cs  == DocRouteCalls
         bad == { i \in 1 .. Len(cs) : ~ValidPath(cs[i].path) }
     IN  \/ /\ phase' = "ok"
            /\ addRouteCalls' = cs
            /\ routes' = AddAll(APIRouter(supplied), cs)
         \/ /\ bad # {}
            /\ phase' = "raised"
            /\ addRouteCalls' = SubSeq(cs, 1, Min(bad))
            /\ routes' = AddAll(APIRouter(supplied), SubSeq(cs, 1, Min(bad) - 1))
  /\ UNCHANGED << config, added, cache, html >>

\* add_route on the constructed application.
AddRoute(r) ==
  /\ phase = "ok"
  /\ added < MaxAdded
  /\ routes' = add_route(routes, r)
  /\ added' = added + 1
  /\ UNCHANGED << phase, config, addRouteCalls, cache, html >>

\* ------------------------------------------------------------- openapi
\* One statement of openapi() executed by caller c.
\*   "idle"/"returned"/"raised" : the handler is entered
\*   "L138" : if not self.openapi_schema  (AttributeError when never assigned)
\*   "L139" : get_openapi(...) is evaluated
\*   "L146" : the result is stored in self.openapi_schema
\*   "L147" : return self.openapi_schema
openapi(c) ==
  /\ phase = "ok"
  /\ IF pc[c] \in {"idle", "returned", "raised"} THEN
          /\ calls < MaxCalls
          /\ calls' = calls + 1
          /\ pc' = [pc EXCEPT ![c] = "L138"]
          /\ local' = [local EXCEPT ![c] = <<>>]
          /\ result' = [result EXCEPT ![c] = <<>>]
          /\ firstRoutes' = IF calls = 0 THEN << routes >> ELSE firstRoutes
          /\ UNCHANGED << openapi_schema, genCount >>
     ELSE IF pc[c] = "L138" THEN
          /\ pc' = [pc EXCEPT ![c] =
                      IF openapi_schema = <<>> THEN "raised"
                      ELSE IF ~TruthyDict(openapi_schema[1]) THEN "L139"
                      ELSE "L147"]
          /\ UNCHANGED << openapi_schema, local, result, calls, genCount, firstRoutes >>
     ELSE IF pc[c] = "L139" THEN
          /\ local' = [local EXCEPT ![c] =
                         << get_openapi(title, version, description, routes,
                                        openapi_tags, servers) >>]
          /\ genCount' = genCount + 1
          /\ pc' = [pc EXCEPT ![c] = "L146"]
          /\ UNCHANGED << openapi_schema, result, calls, firstRoutes >>
     ELSE IF pc[c] = "L146" THEN
          /\ openapi_schema' = local[c]
          /\ pc' = [pc EXCEPT ![c] = "L147"]
          /\ UNCHANGED << local, result, calls, genCount, firstRoutes >>
     ELSE \* "L147"
          /\ result' = [result EXCEPT ![c] = openapi_schema]
          /\ pc' = [pc EXCEPT ![c] = "returned"]
          /\ UNCHANGED << openapi_schema, local, calls, genCount, firstRoutes >>
  /\ UNCHANGED << phase, config, routes, addRouteCalls, added, html >>

\* ------------------------------------------------------- HTML handlers
\* Variant: the docs URL is passed where the schema URL belongs.
swagger_ui_html_DocsUrl ==
  get_swagger_ui_html(docs_url, title \o " - Swagger UI",
                      swagger_ui_oauth2_redirect_url, swagger_ui_init_oauth)

swagger_ui_html ==
  get_swagger_ui_html(openapi_url, title \o " - Swagger UI",
                      swagger_ui_oauth2_redirect_url, swagger_ui_init_oauth)

swagger_ui_oauth2_redirect_html == get_swagger_ui_oauth2_redirect_html

\* Variant: the redoc URL is passed where the schema URL belongs.
redoc_html_RedocUrl == get_redoc_html(redoc_url, title \o " - ReDoc")

redoc_html == get_redoc_html(openapi_url, title \o " - ReDoc")

SwaggerUiHtml ==
  /\ phase = "ok"
  /\ html' = [html EXCEPT !["swagger_ui_html"] = << swagger_ui_html >>]
  /\ UNCHANGED << phase, config, routes, addRouteCalls, added, cache >>

SwaggerUiOauth2RedirectHtml ==
  /\ phase = "ok"
  /\ html' = [html EXCEPT !["swagger_ui_oauth2_redirect_html"] = << swagger_ui_oauth2_redirect_html >>]
  /\ UNCHANGED << phase, config, routes, addRouteCalls, added, cache >>

RedocHtml ==
  /\ phase = "ok"
  /\ html' = [html EXCEPT !["redoc_html"] = << redoc_html >>]
  /\ UNCHANGED << phase, config, routes, addRouteCalls, added, cache >>

\* ------------------------------------------------------- specification
Next ==
  \/ FastAPIInit
  \/ \E r \in LateRoutes : AddRoute(r)
  \/ \E c \in Callers : openapi(c)
  \/ SwaggerUiHtml
  \/ SwaggerUiOauth2RedirectHtml
  \/ RedocHtml

Spec == Init /\ [][Next]_vars

\* ============================================================== claims
HasRoute(p, e) ==
  \E i \in 1 .. Len(routes) : routes[i].path = p /\ routes[i].endpoint = e

HasEndpoint(e) == \E i \in 1 .. Len(routes) : routes[i].endpoint = e

CountEndpoint(e) == Cardinality({ i \in 1 .. Len(routes) : routes[i].endpoint = e })

DocOrder ==
  << "openapi", "swagger_ui_html", "swagger_ui_oauth2_redirect_html", "redoc_html" >>

Rank(e) == CHOOSE i \in 1 .. Len(DocOrder) : DocOrder[i] = e

Finished(c) == pc[c] \in {"returned", "raised"}

\* The schema a single sequential call computes from the routes of the first call.
SequentialSchema ==
  get_openapi(title, version, description, firstRoutes[1], openapi_tags, servers)

HtmlOf(e) == IF e = "swagger_ui_html" THEN swagger_ui_html ELSE redoc_html

DocRouteIffField(url, e) ==
  /\ HasEndpoint(e) <=> Truthy(url)
  /\ Truthy(url) => HasRoute(url, e)

\* C1: after construction, each of the schema, docs and redoc routes is in the
\* route list (under its configured path) if and only if its own URL field is
\* neither None nor the empty string, whatever the other URL fields are.
C1_DocRouteIffOwnField ==
  phase = "ok" =>
    /\ DocRouteIffField(openapi_url, "openapi")
    /\ DocRouteIffField(docs_url, "swagger_ui_html")
    /\ DocRouteIffField(redoc_url, "redoc_html")

\* C1 witness: a constructed application with an empty schema URL and an empty
\* redoc URL whose docs route is registered all the same.
C1_Witness ==
  /\ phase = "ok"
  /\ ~Truthy(openapi_url) /\ Truthy(docs_url) /\ ~Truthy(redoc_url)
  /\ HasRoute(docs_url, "swagger_ui_html")
  /\ ~HasEndpoint("openapi") /\ ~HasEndpoint("redoc_html")

\* C2: the OAuth2-redirect route is registered if and only if its own URL field
\* is non-empty, and the constructor never calls add_route with a None or
\* empty path.
C2_RedirectIffOwnField ==
  /\ \A i \in 1 .. Len(addRouteCalls) : Truthy(addRouteCalls[i].path)
  /\ phase = "ok" =>
       (HasEndpoint("swagger_ui_oauth2_redirect_html")
          <=> Truthy(swagger_ui_oauth2_redirect_url))

\* C3: a call of openapi on a constructed application never ends by raising: it
\* ends by returning a stored schema.
C3_OpenapiNeverRaises ==
  \A c \in Callers : Finished(c) => pc[c] = "returned" /\ result[c] # <<>>

\* C4: the schema generator runs at most once, and every finished openapi call
\* has returned the object held in the cache.
C4_GeneratedOnceAndCached ==
  /\ genCount <= 1
  /\ \A c \in Callers :
       Finished(c) =>
         /\ pc[c] = "returned"
         /\ openapi_schema # <<>>
         /\ result[c] = openapi_schema
         /\ genCount = 1

\* C5: the document a finished openapi call returned carries the configured
\* title, version and description, and the configured tags and servers.
C5_SchemaCarriesConfiguration ==
  \A c \in Callers :
    Finished(c) =>
      /\ pc[c] = "returned"
      /\ result[c][1].info =
           [title |-> title, version |-> version, description |-> description]
      /\ result[c][1].tags = openapi_tags
      /\ result[c][1].servers = servers

\* C6: the docs HTML and the redoc HTML reference exactly the configured schema
\* URL; the docs HTML also carries the configured OAuth2 redirect URL and
\* OAuth2 init settings.
C6_HtmlFromConfiguration ==
  /\ html["swagger_ui_html"] # <<>> =>
       /\ html["swagger_ui_html"][1].openapi_url = openapi_url
       /\ html["swagger_ui_html"][1].oauth2_redirect_url = swagger_ui_oauth2_redirect_url
       /\ html["swagger_ui_html"][1].init_oauth = swagger_ui_init_oauth
  /\ html["redoc_html"] # <<>> =>
       html["redoc_html"][1].openapi_url = openapi_url

\* C6 witness: both HTML handlers have answered on an application with a schema
\* URL, an OAuth2 redirect URL and OAuth2 init settings.
C6_Witness ==
  /\ html["swagger_ui_html"] # <<>>
  /\ html["redoc_html"] # <<>>
  /\ html["swagger_ui_html"][1].openapi_url = "/openapi.json"
  /\ html["swagger_ui_html"][1].oauth2_redirect_url = "/docs/oauth2-redirect"
  /\ html["swagger_ui_html"][1].init_oauth = "client-cfg"
  /\ html["redoc_html"][1].openapi_url = "/openapi.json"

\* C7: when every caller has finished a call of openapi on an application whose
\* routes did not change, none has failed, each has returned the schema a
\* single sequential call returns, and the cache holds that schema.
C7_ConcurrentFirstCalls ==
  (added = 0 /\ \A c \in Callers : Finished(c)) =>
    \A c \in Callers :
      /\ pc[c] = "returned"
      /\ result[c] = << SequentialSchema >>
      /\ openapi_schema = << SequentialSchema >>

\* C8: a call of openapi that finishes after a further route was registered
\* returns the schema computed from the route list of the first call.
C8_LateRoutesDoNotChangeSchema ==
  \A c \in Callers :
    (added > 0 /\ Finished(c)) =>
      /\ pc[c] = "returned"
      /\ result[c] = << SequentialSchema >>

\* C9: right after construction the route list is the supplied routes, in their
\* order, followed by at most four documentation routes in the order schema,
\* docs, OAuth2 redirect, redoc, each at most once.
C9_SuppliedThenDocRoutes ==
  (phase = "ok" /\ added = 0) =>
    LET n == Len(supplied)
        m == Len(routes)
    IN  /\ n <= m /\ m <= n + 4
        /\ SubSeq(routes, 1, n) = supplied
        /\ \A i \in (n + 1) .. m :
             /\ routes[i].endpoint \in { DocOrder[k] : k \in 1 .. Len(DocOrder) }
             /\ \A j \in (i + 1) .. m :
                  Rank(routes[i].endpoint) < Rank(routes[j].endpoint)

\* C9 witness: two supplied routes followed by all four documentation routes.
C9_Witness ==
  /\ phase = "ok" /\ added = 0
  /\ Len(supplied) = 2
  /\ Len(routes) = 6
  /\ routes[1] = supplied[1] /\ routes[2] = supplied[2]
  /\ << routes[3].endpoint, routes[4].endpoint, routes[5].endpoint, routes[6].endpoint >>
       = DocOrder

DocUiRoutes ==
  { i \in 1 .. Len(routes) : routes[i].endpoint \in {"swagger_ui_html", "redoc_html"} }

\* C10 as stated: every registered docs or redoc route references a non-empty
\* schema URL that is the path of a registered schema route.
C10_DocUiPointsAtSchemaRoute ==
  phase = "ok" =>
    \A i \in DocUiRoutes :
      /\ Truthy(HtmlOf(routes[i].endpoint).openapi_url)
      /\ HasRoute(HtmlOf(routes[i].endpoint).openapi_url, "openapi")

\* C10 amended: a registered docs or redoc route references the configured
\* schema URL; when that URL is non-empty it is the path of a registered schema
\* route, and when it is None or empty no schema route is registered.
C10_DocUiPointsAtSchemaRouteIfSet ==
  phase = "ok" =>
    \A i \in DocUiRoutes :
      LET ref == HtmlOf(routes[i].endpoint).openapi_url
      IN  /\ ref = openapi_url
          /\ Truthy(openapi_url) => HasRoute(ref, "openapi")
          /\ ~Truthy(openapi_url) => ~HasEndpoint("openapi")

\* C10 witness: docs and redoc routes registered beside the schema route they
\* reference.
C10_Witness ==
  /\ phase = "ok"
  /\ HasRoute(docs_url, "swagger_ui_html")
  /\ HasRoute(redoc_url, "redoc_html")
  /\ Truthy(openapi_url)
  /\ HasRoute(swagger_ui_html.openapi_url, "openapi")
  /\ HasRoute(redoc_html.openapi_url, "openapi")

====
